---- MODULE Spec2Model ----
(***************************************************************************)
(* Model of the translate -> synthesize -> upload -> transcribe pipeline   *)
(* of src/src/main.go.  Go strings are sequences of one-character strings; *)
(* fixed literals ("audioFile-", "s3://", the bucket name) are kept as one *)
(* element, and a character that has no escape in a TLA+ string is written *)
(* by its code point ("U+3000").  External services and local file         *)
(* operations either succeed or fail, chosen nondeterministically.         *)
(***************************************************************************)
EXTENDS Integers, Sequences, FiniteSets, TLC

VARIABLES
    pc,             \* position of main
    input,          \* bytes of ./input.txt
    textLines,      \* main: textLines
    idx,            \* main: position of the range loop over textLines (1-based)
    translatedText, \* main: translatedText of the current record
    audioFileName,  \* synthesizeSpeechAndUpload: audioFileName (<<>> before line 134)
    retName,        \* value returned by synthesizeSpeechAndUpload
    retErr,         \* error returned by synthesizeSpeechAndUpload
    now,            \* wall clock, in ticks after StartSec
    startSec,       \* wall-clock second at which the run starts
    disk,           \* names of the local files that exist
    created,        \* names of the local files the run has created
    fileData,       \* bytes of translated_text.txt on disk
    buf,            \* bytes buffered in writer (bufio.Writer)
    objects,        \* objects in the S3 bucket: records [key, body]
    log,            \* every operation performed so far, in order
    stdout,         \* the lines printed by fmt.Println: <<message, value>>
    written,        \* the strings given to writer.WriteString, in order
    writerErr       \* writer has recorded a failed write (bufio.Writer.err)

vars == <<pc, input, textLines, idx, translatedText, audioFileName, retName,
          retErr, now, startSec, disk, created, fileData, buf, objects, log,
          stdout, written, writerErr>>

----------------------------------------------------------------------------
(* Bounds of the model *)

\* most lines of an input file
MaxLines == 3
\* clock resolution of the model: ticks per wall-clock second
TicksPerSec == 2
\* last clock reading of a run, in ticks after its start
MaxTicks == 2

\* lines an input file is made of: empty, white space, text
LineTexts == {<<>>, <<" ", "\f", "U+3000">>, <<"a">>}
\* texts the translation service may answer with
TransTexts == {<<"x">>, <<"y", "z">>}
\* wall-clock seconds a run may start at: 2023-12-31T23:59:59
StartSecs == {1704067199}

(* Program constants *)

bucketName == "report.3q-aws-s24745201.com"
outputFileName == <<"translated_text.txt">>
\* default buffer size of bufio.NewWriter
BufSize == 4096

----------------------------------------------------------------------------
(* Strings *)

RECURSIVE SeqsUpTo(_, _)
SeqsUpTo(S, n) ==
    IF n = 0 THEN {<<>>}
    ELSE LET shorter == SeqsUpTo(S, n - 1)
         IN  shorter \cup {Append(s, c) : s \in {t \in shorter : Len(t) = n - 1}, c \in S}

Last(s) == s[Len(s)]
Front(s) == SubSeq(s, 1, Len(s) - 1)

IsPrefix(s, t) == Len(s) <= Len(t) /\ SubSeq(t, 1, Len(s)) = s

\* unicode.IsSpace: the six ASCII spaces, U+0085 and U+00A0 of Latin-1,
\* and the other characters of the Unicode property White_Space
IsSpace(c) ==
    c \in {"\t", "\n", "U+000B", "\f", "\r", " ", "U+0085", "U+00A0",
           "U+1680", "U+2000", "U+2001", "U+2002", "U+2003", "U+2004",
           "U+2005", "U+2006", "U+2007", "U+2008", "U+2009", "U+200A",
           "U+2028", "U+2029", "U+202F", "U+205F", "U+3000"}

\* strings.TrimSpace
RECURSIVE TrimLeft(_)
TrimLeft(s) ==
    IF s # <<>> /\ IsSpace(Head(s)) THEN TrimLeft(Tail(s)) ELSE s

RECURSIVE TrimRight(_)
TrimRight(s) ==
    IF s # <<>> /\ IsSpace(Last(s)) THEN TrimRight(Front(s)) ELSE s

TrimSpace(s) == TrimRight(TrimLeft(s))

\* bufio.ScanLines: drop one trailing carriage return of a line
DropCR(s) == IF s # <<>> /\ Last(s) = "\r" THEN Front(s) ELSE s

\* bufio.Scanner with ScanLines over the whole file: the lines between
\* newlines, the last one only when it is not empty
RECURSIVE ScanFrom(_, _, _)
ScanFrom(data, cur, acc) ==
    IF data = <<>>
    THEN IF cur = <<>> THEN acc ELSE Append(acc, DropCR(cur))
    ELSE IF Head(data) = "\n"
         THEN ScanFrom(Tail(data), <<>>, Append(acc, DropCR(cur)))
         ELSE ScanFrom(Tail(data), Append(cur, Head(data)), acc)

ScanLines(data) == ScanFrom(data, <<>>, <<>>)

\* the bytes of a file of the given lines, each ended by a newline
RECURSIVE FileOf(_)
FileOf(lines) ==
    IF lines = <<>> THEN <<>> ELSE Head(lines) \o <<"\n">> \o FileOf(Tail(lines))

\* the files of up to MaxLines lines that end with a newline, and those of
\* fewer lines whose last line has none
InputFiles ==
    {FileOf(ls) : ls \in SeqsUpTo(LineTexts, MaxLines)}
    \cup {Front(FileOf(ls)) : ls \in SeqsUpTo(LineTexts, MaxLines - 1) \ {<<>>}}

----------------------------------------------------------------------------
(* time.Now().Format("20060102150405") *)

DigitChar(d) == <<"0", "1", "2", "3", "4", "5", "6", "7", "8", "9">>[d + 1]

Pad2(n) == <<DigitChar((n \div 10) % 10), DigitChar(n % 10)>>
Pad4(n) == <<DigitChar((n \div 1000) % 10), DigitChar((n \div 100) % 10)>> \o Pad2(n % 100)

\* civil date <<year, month, day>> of a day number counted from 1970-01-01
CivilFromDays(days) ==
    LET z   == days + 719468
        era == z \div 146097
        doe == z - era * 146097
        yoe == (doe - doe \div 1460 + doe \div 36524 - doe \div 146096) \div 365
        doy == doe - (365 * yoe + yoe \div 4 - yoe \div 100)
        mp  == (5 * doy + 2) \div 153
        d   == doy - (153 * mp + 2) \div 5 + 1
        m   == IF mp < 10 THEN mp + 3 ELSE mp - 9
        y   == yoe + era * 400 + (IF m <= 2 THEN 1 ELSE 0)
    IN  <<y, m, d>>

\* wall-clock second of a clock reading
SecondOf(t) == startSec + t \div TicksPerSec

\* mutant of FormatStamp: the layout "20060201150405", day before month
FormatStamp_DayFirst(sec) ==
    LET ymd == CivilFromDays(sec \div 86400)
        sod == sec % 86400
    IN  Pad4(ymd[1]) \o Pad2(ymd[3]) \o Pad2(ymd[2])
        \o Pad2(sod \div 3600) \o Pad2((sod % 3600) \div 60) \o Pad2(sod % 60)

\* the layout "20060102150405": year, month, day, hour, minute, second
FormatStamp(sec) ==
    LET ymd == CivilFromDays(sec \div 86400)
        sod == sec % 86400
    IN  Pad4(ymd[1]) \o Pad2(ymd[2]) \o Pad2(ymd[3])
        \o Pad2(sod \div 3600) \o Pad2((sod % 3600) \div 60) \o Pad2(sod % 60)

\* mutant of Format: a layout that goes on to the fraction of the second
Format_Fraction(t) == FormatStamp(SecondOf(t)) \o Pad2(t % TicksPerSec)

Format(t) == FormatStamp(SecondOf(t))

\* line 134
AudioName(t) == <<"audioFile-">> \o Format(t) \o <<"-output.mp3">>

\* line 176
JobName(t) == <<"transcription-job-">> \o Format(t)

\* line 174: fmt.Sprintf("s3://%s/%s", bucketName, audioFileName)
AudioFileURI(bucket, name) == <<"s3://", bucket, "/">> \o name

----------------------------------------------------------------------------
(* bufio.Writer *)

\* Writer.Flush: the outcomes <<file, buffer, err>> of flushing the buffer
\* b.  A recorded error is returned at once and an empty buffer needs no
\* write.  Otherwise the buffer is written to the file: all of it, or, when
\* the write fails, its first n bytes, the rest staying in the buffer and
\* the error being recorded
Flush(file, b, err) ==
    IF err THEN {<<file, b, TRUE>>}
    ELSE IF b = <<>> THEN {<<file, b, FALSE>>}
    ELSE {<<file \o b, <<>>, FALSE>>}
         \cup {<<file \o SubSeq(b, 1, n), SubSeq(b, n + 1, Len(b)), TRUE>> :
                  n \in 0 .. Len(b) - 1}

\* Writer.WriteString: the outcomes <<file, buffer, err>> of writing s.
\* After a recorded error nothing is written.  While s is longer than the
\* room left in the buffer: with an empty buffer s is handed whole to the
\* file's own WriteString, otherwise the buffer is filled up from s and
\* flushed.  What is left of s is copied into the buffer
RECURSIVE WriteString(_, _, _, _)
WriteString(file, b, err, s) ==
    IF err THEN {<<file, b, TRUE>>}
    ELSE IF Len(s) <= BufSize - Len(b) THEN {<<file, b \o s, FALSE>>}
    ELSE IF b = <<>>
    THEN {<<file \o s, <<>>, FALSE>>}
         \cup {<<file \o SubSeq(s, 1, n), <<>>, TRUE>> : n \in 0 .. Len(s) - 1}
    ELSE LET n == BufSize - Len(b)
             rest == SubSeq(s, n + 1, Len(s))
         IN  UNION {IF w[3] THEN {w} ELSE WriteString(w[1], w[2], FALSE, rest) :
                      w \in Flush(file, b \o SubSeq(s, 1, n), FALSE)}

\* the bytes the sink holds: those in the file followed by those buffered
SinkContent == fileData \o buf

\* the entries of a sink: its newline-terminated lines
SinkEntries(data) == ScanLines(data)

----------------------------------------------------------------------------
(* The record of operations *)

NoName == <<>>
NoTime == 0 - 1

\* one operation: what was called, for which line of the input (0: none),
\* whether it succeeded, the file, key or job name it was given, the clock
\* reading the name was made from, its argument, its result, its bucket
Op(op, rec, ok, name, at, arg, res, bucket) ==
    [op |-> op, rec |-> rec, ok |-> ok, name |-> name, at |-> at,
     arg |-> arg, res |-> res, bucket |-> bucket]

\* a local operation that only succeeds or fails
LocalOp(op, rec, ok, name) == Op(op, rec, ok, name, NoTime, <<>>, <<>>, "")

\* fmt.Println(message, value)
Println(message, value) == stdout' = Append(stdout, <<message, value>>)

\* the value printed for an error
ErrText == <<"err">>

\* a reading of time.Now(): not before the previous one
ClockReadings == now .. MaxTicks

----------------------------------------------------------------------------
(* Initial state: the process has started, ./input.txt holds any bytes *)

Init ==
    /\ pc = "getInputText"
    /\ input \in InputFiles
    /\ startSec \in StartSecs
    /\ textLines = <<>>
    /\ idx = 1
    /\ translatedText = <<>>
    /\ audioFileName = NoName
    /\ retName = NoName
    /\ retErr = FALSE
    /\ now = 0
    /\ disk = {}
    /\ created = {}
    /\ fileData = <<>>
    /\ buf = <<>>
    /\ objects = {}
    /\ log = <<>>
    /\ stdout = <<>>
    /\ written = <<>>
    /\ writerErr = FALSE

----------------------------------------------------------------------------
(* main, lines 27-40 *)

\* mutant of GetInputTextScanFail: main goes on with the lines read
GetInputTextScanFail_Partial ==
    /\ pc = "getInputText"
    /\ \E n \in 0 .. Len(ScanLines(input)) :
        /\ textLines' = SubSeq(ScanLines(input), 1, n)
        /\ log' = Append(log, Op("getInputText", 0, FALSE, NoName, NoTime,
                                 SubSeq(ScanLines(input), 1, n), <<>>, ""))
    /\ pc' = "createOutput"
    /\ Println("Error reading input file:", ErrText)
    /\ UNCHANGED <<input, idx, translatedText, audioFileName, retName, retErr,
                   now, startSec, disk, created, fileData, buf, objects,
                   written, writerErr>>

\* getInputText fails while reading: scanner.Err() after n lines were
\* appended to lines (lines 94-99); nil is returned, main reports the
\* error and returns (lines 29-32)
GetInputTextScanFail ==
    /\ pc = "getInputText"
    /\ \E n \in 0 .. Len(ScanLines(input)) :
        log' = Append(log, Op("getInputText", 0, FALSE, NoName, NoTime,
                              SubSeq(ScanLines(input), 1, n), <<>>, ""))
    /\ pc' = "done"
    /\ Println("Error reading input file:", ErrText)
    /\ UNCHANGED <<input, textLines, idx, translatedText, audioFileName, retName,
                   retErr, now, startSec, disk, created, fileData, buf, objects,
                   written, writerErr>>

\* getInputText fails to open the file: os.Open (lines 86-89); main
\* reports it and returns (lines 29-32)
GetInputTextFail ==
    /\ pc = "getInputText"
    /\ pc' = "done"
    /\ log' = Append(log, LocalOp("getInputText", 0, FALSE, NoName))
    /\ UNCHANGED <<input, textLines, idx, translatedText, audioFileName, retName,
                   retErr, now, startSec, disk, created, fileData, buf, objects>>
    /\ Println("Error reading input file:", ErrText)
    /\ written' = written
    /\ writerErr' = writerErr

\* getInputText returns the lines of the file (lines 92-100)
GetInputTextOK ==
    /\ pc = "getInputText"
    /\ textLines' = ScanLines(input)
    /\ pc' = "createOutput"
    /\ log' = Append(log, LocalOp("getInputText", 0, TRUE, NoName))
    /\ UNCHANGED <<input, idx, translatedText, audioFileName, retName,
                   retErr, now, startSec, disk, created, fileData, buf, objects>>
    /\ stdout' = stdout
    /\ written' = written
    /\ writerErr' = writerErr

\* os.Create(outputFileName) fails (lines 36-40): no cleanup is deferred yet
CreateOutputFail ==
    /\ pc = "createOutput"
    /\ pc' = "done"
    /\ log' = Append(log, LocalOp("createOutput", 0, FALSE, outputFileName))
    /\ UNCHANGED <<input, textLines, idx, translatedText, audioFileName, retName,
                   retErr, now, startSec, disk, created, fileData, buf, objects>>
    /\ Println("Error creating output file:", ErrText)
    /\ written' = written
    /\ writerErr' = writerErr

\* os.Create(outputFileName) succeeds: the file exists and is empty; the
\* cleanup is deferred and the writer is made (lines 36-53)
CreateOutputOK ==
    /\ pc = "createOutput"
    /\ disk' = disk \cup {outputFileName}
    /\ created' = created \cup {outputFileName}
    /\ fileData' = <<>>
    /\ buf' = <<>>
    /\ idx' = 1
    /\ pc' = "loop"
    /\ log' = Append(log, LocalOp("createOutput", 0, TRUE, outputFileName))
    /\ UNCHANGED <<input, textLines, translatedText, audioFileName, retName,
                   retErr, now, startSec, objects>>
    /\ stdout' = stdout
    /\ written' = written
    /\ writerErr' = FALSE

----------------------------------------------------------------------------
(* main, the loop over textLines, lines 55-80 *)

\* mutant of IsBlank: the line is compared without being trimmed
IsBlank_Untrimmed(txt) == txt = <<>>

\* line 56
IsBlank(txt) == TrimSpace(txt) = <<>>

AtLine == pc = "loop" /\ idx <= Len(textLines)

\* mutant of SkipBlank: the loop does not move on to the next line
SkipBlank_Stuck ==
    /\ AtLine
    /\ IsBlank(textLines[idx])
    /\ UNCHANGED vars

\* line 56 is false: the line is passed over
SkipBlank ==
    /\ AtLine
    /\ IsBlank(textLines[idx])
    /\ idx' = idx + 1
    /\ UNCHANGED <<pc, input, textLines, translatedText, audioFileName, retName,
                   retErr, now, startSec, disk, created, fileData, buf, objects, log>>
    /\ stdout' = stdout
    /\ written' = written
    /\ writerErr' = writerErr

\* mutant of TranslateFail: the result is written before the error is looked at
TranslateFail_WrittenFirst ==
    /\ AtLine
    /\ ~IsBlank(textLines[idx])
    /\ \E w \in WriteString(fileData, buf, writerErr, <<"\n">>) :
        fileData' = w[1] /\ buf' = w[2] /\ writerErr' = w[3]
    /\ log' = Append(log, Op("translate", idx, FALSE, NoName, NoTime,
                             textLines[idx], <<>>, ""))
    /\ pc' = "cleanup"
    /\ UNCHANGED <<input, textLines, idx, translatedText, audioFileName, retName,
                   retErr, now, startSec, disk, created, objects>>
    /\ Println("Error translating text:", ErrText)
    /\ written' = Append(written, <<"\n">>)

\* translateText fails (lines 58-62): main reports it and returns
TranslateFail ==
    /\ AtLine
    /\ ~IsBlank(textLines[idx])
    /\ log' = Append(log, Op("translate", idx, FALSE, NoName, NoTime,
                             textLines[idx], <<>>, ""))
    /\ pc' = "cleanup"
    /\ UNCHANGED <<input, textLines, idx, translatedText, audioFileName, retName,
                   retErr, now, startSec, disk, created, fileData, buf, objects>>
    /\ Println("Error translating text:", ErrText)
    /\ written' = written
    /\ writerErr' = writerErr

\* mutant of TranslateOK: the translation is not written to the writer
TranslateOK_Unwritten ==
    /\ AtLine
    /\ ~IsBlank(textLines[idx])
    /\ \E t \in TransTexts :
        /\ translatedText' = t
        /\ log' = Append(log, Op("translate", idx, TRUE, NoName, NoTime,
                                 textLines[idx], t, ""))
    /\ pc' = "synthesize"
    /\ Println("Translated text:", translatedText')
    /\ UNCHANGED <<input, textLines, idx, audioFileName, retName, retErr, now,
                   startSec, disk, created, fileData, buf, objects,
                   written, writerErr>>

\* translateText succeeds (lines 58-64): the translation and a newline are
\* written to the writer
TranslateOK ==
    /\ AtLine
    /\ ~IsBlank(textLines[idx])
    /\ \E t \in TransTexts :
        /\ translatedText' = t
        /\ \E w \in WriteString(fileData, buf, writerErr, t \o <<"\n">>) :
            fileData' = w[1] /\ buf' = w[2] /\ writerErr' = w[3]
        /\ log' = Append(log, Op("translate", idx, TRUE, NoName, NoTime,
                                 textLines[idx], t, ""))
    /\ pc' = "synthesize"
    /\ UNCHANGED <<input, textLines, idx, audioFileName, retName,
                   retErr, now, startSec, disk, created, objects>>
    /\ Println("Translated text:", translatedText')
    /\ written' = Append(written, translatedText' \o <<"\n">>)

----------------------------------------------------------------------------
(* synthesizeSpeechAndUpload, lines 119-168 *)

\* the function returns an error: "" and err
ReturnErr ==
    /\ retName' = NoName
    /\ retErr' = TRUE
    /\ pc' = "synthReturned"

\* pollySvc.SynthesizeSpeech fails (lines 128-131)
SynthesizeFail ==
    /\ pc = "synthesize"
    /\ log' = Append(log, Op("synthesize", idx, FALSE, NoName, NoTime,
                             translatedText, <<>>, ""))
    /\ audioFileName' = NoName
    /\ ReturnErr
    /\ UNCHANGED <<input, textLines, idx, translatedText,
                   now, startSec, disk, created, fileData, buf, objects>>
    /\ stdout' = stdout
    /\ written' = written
    /\ writerErr' = writerErr

\* pollySvc.SynthesizeSpeech succeeds (line 128)
SynthesizeOK ==
    /\ pc = "synthesize"
    /\ log' = Append(log, Op("synthesize", idx, TRUE, NoName, NoTime,
                             translatedText, <<"mp3">> \o translatedText, ""))
    /\ audioFileName' = NoName
    /\ pc' = "createAudio"
    /\ UNCHANGED <<input, textLines, idx, translatedText, retName, retErr,
                   now, startSec, disk, created, fileData, buf, objects>>
    /\ stdout' = stdout
    /\ written' = written
    /\ writerErr' = writerErr

\* the name is made from the clock (line 134) and os.Create fails (135-138)
CreateAudioFail ==
    /\ pc = "createAudio"
    /\ \E t \in ClockReadings :
        /\ now' = t
        /\ audioFileName' = AudioName(t)
        /\ log' = Append(log, Op("createAudio", idx, FALSE, AudioName(t), t,
                                 <<>>, <<>>, ""))
    /\ ReturnErr
    /\ UNCHANGED <<input, textLines, idx, translatedText,
                   startSec, disk, created, fileData, buf, objects>>
    /\ stdout' = stdout
    /\ written' = written
    /\ writerErr' = writerErr

\* the name is made from the clock (line 134) and the file is created (135)
CreateAudioOK ==
    /\ pc = "createAudio"
    /\ \E t \in ClockReadings :
        /\ now' = t
        /\ audioFileName' = AudioName(t)
        /\ disk' = disk \cup {AudioName(t)}
        /\ created' = created \cup {AudioName(t)}
        /\ log' = Append(log, Op("createAudio", idx, TRUE, AudioName(t), t,
                                 <<>>, <<>>, ""))
    /\ pc' = "readFrom"
    /\ UNCHANGED <<input, textLines, idx, translatedText, retName, retErr,
                   startSec, fileData, buf, objects>>
    /\ stdout' = stdout
    /\ written' = written
    /\ writerErr' = writerErr

\* audioFile.ReadFrom fails (lines 141-144); the file is closed on return
ReadFromFail ==
    /\ pc = "readFrom"
    /\ log' = Append(log, LocalOp("readFrom", idx, FALSE, audioFileName))
    /\ ReturnErr
    /\ UNCHANGED <<input, textLines, idx, translatedText, audioFileName,
                   now, startSec, disk, created, fileData, buf, objects>>
    /\ stdout' = stdout
    /\ written' = written
    /\ writerErr' = writerErr

\* audioFile.ReadFrom stores the audio stream in the file (line 141)
ReadFromOK ==
    /\ pc = "readFrom"
    /\ log' = Append(log, LocalOp("readFrom", idx, TRUE, audioFileName))
    /\ pc' = "putObject"
    /\ UNCHANGED <<input, textLines, idx, translatedText, audioFileName, retName,
                   retErr, now, startSec, disk, created, fileData, buf, objects>>
    /\ stdout' = stdout
    /\ written' = written
    /\ writerErr' = writerErr

\* s3Svc.PutObject fails (lines 149-156)
PutObjectFail ==
    /\ pc = "putObject"
    /\ log' = Append(log, Op("put", idx, FALSE, audioFileName, NoTime,
                             <<"mp3">> \o translatedText, <<>>, bucketName))
    /\ ReturnErr
    /\ UNCHANGED <<input, textLines, idx, translatedText, audioFileName,
                   now, startSec, disk, created, fileData, buf, objects>>
    /\ stdout' = stdout
    /\ written' = written
    /\ writerErr' = writerErr

\* mutant of PutObjectOK: the name is returned without removing the file
PutObjectOK_Returns ==
    /\ pc = "putObject"
    /\ objects' = {o \in objects : o.key # audioFileName}
                  \cup {[key |-> audioFileName, body |-> <<"mp3">> \o translatedText]}
    /\ log' = Append(log, Op("put", idx, TRUE, audioFileName, NoTime,
                             <<"mp3">> \o translatedText, <<>>, bucketName))
    /\ retName' = audioFileName
    /\ retErr' = FALSE
    /\ pc' = "synthReturned"
    /\ Println("Uploaded audio file to S3:", audioFileName)
    /\ UNCHANGED <<input, textLines, idx, translatedText, audioFileName,
                   now, startSec, disk, created, fileData, buf,
                   written, writerErr>>

\* s3Svc.PutObject stores the file under the key audioFileName, replacing
\* an object of that key (lines 149-157)
PutObjectOK ==
    /\ pc = "putObject"
    /\ objects' = {o \in objects : o.key # audioFileName}
                  \cup {[key |-> audioFileName, body |-> <<"mp3">> \o translatedText]}
    /\ log' = Append(log, Op("put", idx, TRUE, audioFileName, NoTime,
                             <<"mp3">> \o translatedText, <<>>, bucketName))
    /\ pc' = "removeAudio"
    /\ UNCHANGED <<input, textLines, idx, translatedText, audioFileName, retName,
                   retErr, now, startSec, disk, created, fileData, buf>>
    /\ Println("Uploaded audio file to S3:", audioFileName)
    /\ written' = written
    /\ writerErr' = writerErr

\* mutant of RemoveAudioFail: the error is printed and the name returned
RemoveAudioFail_Reported ==
    /\ pc = "removeAudio"
    /\ log' = Append(log, LocalOp("removeAudio", idx, FALSE, audioFileName))
    /\ retName' = audioFileName
    /\ retErr' = FALSE
    /\ pc' = "synthReturned"
    /\ Println("Error deleting local audio file:", ErrText)
    /\ UNCHANGED <<input, textLines, idx, translatedText, audioFileName,
                   now, startSec, disk, created, fileData, buf, objects,
                   written, writerErr>>

\* mutant of RemoveAudioFail: the uploaded object is taken back
RemoveAudioFail_Rollback ==
    /\ pc = "removeAudio"
    /\ log' = Append(log, LocalOp("removeAudio", idx, FALSE, audioFileName))
    /\ objects' = {o \in objects : o.key # audioFileName}
    /\ ReturnErr
    /\ Println("Error deleting local audio file:", ErrText)
    /\ UNCHANGED <<input, textLines, idx, translatedText, audioFileName,
                   now, startSec, disk, created, fileData, buf,
                   written, writerErr>>

\* os.Remove(audioFileName) fails (lines 160-164)
RemoveAudioFail ==
    /\ pc = "removeAudio"
    /\ log' = Append(log, LocalOp("removeAudio", idx, FALSE, audioFileName))
    /\ ReturnErr
    /\ UNCHANGED <<input, textLines, idx, translatedText, audioFileName,
                   now, startSec, disk, created, fileData, buf, objects>>
    /\ Println("Error deleting local audio file:", ErrText)
    /\ written' = written
    /\ writerErr' = writerErr

\* mutant of RemoveAudioOK: the file is not removed
RemoveAudioOK_Kept ==
    /\ pc = "removeAudio"
    /\ log' = Append(log, LocalOp("removeAudio", idx, TRUE, audioFileName))
    /\ retName' = audioFileName
    /\ retErr' = FALSE
    /\ pc' = "synthReturned"
    /\ UNCHANGED <<input, textLines, idx, translatedText, audioFileName,
                   now, startSec, disk, created, fileData, buf, objects>>
    /\ Println("Deleted local audio file:", audioFileName)
    /\ written' = written
    /\ writerErr' = writerErr

\* os.Remove(audioFileName) succeeds; the name is returned (lines 160-167)
RemoveAudioOK ==
    /\ pc = "removeAudio"
    /\ disk' = disk \ {audioFileName}
    /\ log' = Append(log, LocalOp("removeAudio", idx, TRUE, audioFileName))
    /\ retName' = audioFileName
    /\ retErr' = FALSE
    /\ pc' = "synthReturned"
    /\ UNCHANGED <<input, textLines, idx, translatedText, audioFileName,
                   now, startSec, created, fileData, buf, objects>>
    /\ Println("Deleted local audio file:", audioFileName)
    /\ written' = written
    /\ writerErr' = writerErr

----------------------------------------------------------------------------
(* main, lines 67-78 *)

\* mutant of SynthesizeSpeechAndUploadErr: the error is not looked at
SynthesizeSpeechAndUploadErr_Ignored ==
    /\ pc = "synthReturned"
    /\ retErr
    /\ pc' = "transcribe"
    /\ UNCHANGED <<input, textLines, idx, translatedText, audioFileName, retName,
                   retErr, now, startSec, disk, created, fileData, buf, objects, log>>
    /\ stdout' = stdout
    /\ written' = written
    /\ writerErr' = writerErr

\* synthesizeSpeechAndUpload returned an error (lines 68-71)
SynthesizeSpeechAndUploadErr ==
    /\ pc = "synthReturned"
    /\ retErr
    /\ pc' = "cleanup"
    /\ UNCHANGED <<input, textLines, idx, translatedText, audioFileName, retName,
                   retErr, now, startSec, disk, created, fileData, buf, objects, log>>
    /\ Println("Error synthesizing or uploading audio file:", ErrText)
    /\ written' = written
    /\ writerErr' = writerErr

\* synthesizeSpeechAndUpload returned the name (line 67)
SynthesizeSpeechAndUploadOK ==
    /\ pc = "synthReturned"
    /\ ~retErr
    /\ pc' = "transcribe"
    /\ UNCHANGED <<input, textLines, idx, translatedText, audioFileName, retName,
                   retErr, now, startSec, disk, created, fileData, buf, objects, log>>
    /\ stdout' = stdout
    /\ written' = written
    /\ writerErr' = writerErr

\* mutant of TranscribeInput: the audio name is made again from the clock
TranscribeInput_Renamed(name, bucket, t, ok) ==
    Op("submit", idx, ok, JobName(t), t, AudioFileURI(bucket, AudioName(t)), <<>>, bucket)

\* the request of transcribeAudioFile(sess, name, bucket) made at clock
\* reading t (lines 174-185)
TranscribeInput(name, bucket, t, ok) ==
    Op("submit", idx, ok, JobName(t), t, AudioFileURI(bucket, name), <<>>, bucket)

\* mutant of TranscribeFail: the process exits without running the
\* deferred function
TranscribeFail_Exit ==
    /\ pc = "transcribe"
    /\ \E t \in ClockReadings :
        /\ now' = t
        /\ log' = Append(log, TranscribeInput(retName, bucketName, t, FALSE))
    /\ pc' = "done"
    /\ Println("Error transcribing audio file:", ErrText)
    /\ UNCHANGED <<input, textLines, idx, translatedText, audioFileName, retName,
                   retErr, startSec, disk, created, fileData, buf, objects,
                   written, writerErr>>

\* mutant of TranscribeFail: the loop goes on with the next line
TranscribeFail_Continue ==
    /\ pc = "transcribe"
    /\ \E t \in ClockReadings :
        /\ now' = t
        /\ log' = Append(log, TranscribeInput(retName, bucketName, t, FALSE))
    /\ idx' = idx + 1
    /\ pc' = "loop"
    /\ UNCHANGED <<input, textLines, translatedText, audioFileName, retName,
                   retErr, startSec, disk, created, fileData, buf, objects>>
    /\ Println("Error transcribing audio file:", ErrText)
    /\ written' = written
    /\ writerErr' = writerErr

\* transcribeAudioFile fails (lines 74-78, 187-190)
TranscribeFail ==
    /\ pc = "transcribe"
    /\ \E t \in ClockReadings :
        /\ now' = t
        /\ log' = Append(log, TranscribeInput(retName, bucketName, t, FALSE))
    /\ pc' = "cleanup"
    /\ UNCHANGED <<input, textLines, idx, translatedText, audioFileName, retName,
                   retErr, startSec, disk, created, fileData, buf, objects>>
    /\ Println("Error transcribing audio file:", ErrText)
    /\ written' = written
    /\ writerErr' = writerErr

\* transcribeAudioFile starts the job (lines 74, 187-193); the loop goes on
TranscribeOK ==
    /\ pc = "transcribe"
    /\ \E t \in ClockReadings :
        /\ now' = t
        /\ log' = Append(log, TranscribeInput(retName, bucketName, t, TRUE))
    /\ idx' = idx + 1
    /\ pc' = "loop"
    /\ UNCHANGED <<input, textLines, translatedText, audioFileName, retName,
                   retErr, startSec, disk, created, fileData, buf, objects>>
    /\ Println("Transcription job started:", JobName(now'))
    /\ written' = written
    /\ writerErr' = writerErr

----------------------------------------------------------------------------
(* main, line 81 and the deferred function, lines 42-51 *)

\* mutant of FlushOK: the flush is deferred too and runs after the file
\* was closed and removed
FlushOK_AfterRemove ==
    /\ pc = "loop"
    /\ idx > Len(textLines)
    /\ disk' = disk \ {outputFileName}
    /\ fileData' = <<>>
    /\ buf' = <<>>
    /\ log' = log \o <<LocalOp("removeOutput", 0, TRUE, outputFileName),
                        LocalOp("flush", 0, TRUE, outputFileName)>>
    /\ pc' = "done"
    /\ Println("Deleted local text file:", outputFileName)
    /\ UNCHANGED <<input, textLines, idx, translatedText, audioFileName, retName,
                   retErr, now, startSec, created, objects, written, writerErr>>

\* mutant of FlushOK: the writer is not flushed
FlushOK_Missing ==
    /\ pc = "loop"
    /\ idx > Len(textLines)
    /\ log' = Append(log, LocalOp("flush", 0, TRUE, outputFileName))
    /\ pc' = "cleanup"
    /\ UNCHANGED <<input, textLines, idx, translatedText, audioFileName, retName,
                   retErr, now, startSec, disk, created, fileData, buf, objects>>
    /\ stdout' = stdout
    /\ written' = written
    /\ writerErr' = writerErr

\* writer.Flush() after the last line (line 81) returns nil: the buffer
\* has gone to the file
FlushOK ==
    /\ pc = "loop"
    /\ idx > Len(textLines)
    /\ \E w \in Flush(fileData, buf, writerErr) :
        /\ ~w[3]
        /\ fileData' = w[1] /\ buf' = w[2] /\ writerErr' = w[3]
    /\ log' = Append(log, LocalOp("flush", 0, TRUE, outputFileName))
    /\ pc' = "cleanup"
    /\ UNCHANGED <<input, textLines, idx, translatedText, audioFileName, retName,
                   retErr, now, startSec, disk, created, objects>>
    /\ stdout' = stdout
    /\ written' = written

\* writer.Flush() after the last line (line 81) returns an error: the
\* write to the file failed after some first bytes of the buffer, or after
\* none; the rest stays in the buffer and main ignores the error
FlushFail ==
    /\ pc = "loop"
    /\ idx > Len(textLines)
    /\ \E w \in Flush(fileData, buf, writerErr) :
        /\ w[3]
        /\ fileData' = w[1] /\ buf' = w[2] /\ writerErr' = w[3]
    /\ log' = Append(log, LocalOp("flush", 0, FALSE, outputFileName))
    /\ pc' = "cleanup"
    /\ UNCHANGED <<input, textLines, idx, translatedText, audioFileName, retName,
                   retErr, now, startSec, disk, created, objects>>
    /\ stdout' = stdout
    /\ written' = written

\* the deferred function: the file is closed, os.Remove fails (lines 43-49)
RemoveOutputFail ==
    /\ pc = "cleanup"
    /\ log' = Append(log, LocalOp("removeOutput", 0, FALSE, outputFileName))
    /\ pc' = "done"
    /\ UNCHANGED <<input, textLines, idx, translatedText, audioFileName, retName,
                   retErr, now, startSec, disk, created, fileData, buf, objects>>
    /\ Println("Error deleting local text file:", ErrText)
    /\ written' = written
    /\ writerErr' = writerErr

\* the deferred function: the file is closed and removed (lines 43-50)
RemoveOutputOK ==
    /\ pc = "cleanup"
    /\ disk' = disk \ {outputFileName}
    /\ fileData' = <<>>
    /\ log' = Append(log, LocalOp("removeOutput", 0, TRUE, outputFileName))
    /\ pc' = "done"
    /\ UNCHANGED <<input, textLines, idx, translatedText, audioFileName, retName,
                   retErr, now, startSec, created, buf, objects>>
    /\ Println("Deleted local text file:", outputFileName)
    /\ written' = written
    /\ writerErr' = writerErr

Next ==
    \/ GetInputTextFail \/ GetInputTextScanFail \/ GetInputTextOK
    \/ CreateOutputFail \/ CreateOutputOK
    \/ SkipBlank
    \/ TranslateFail \/ TranslateOK
    \/ SynthesizeFail \/ SynthesizeOK
    \/ CreateAudioFail \/ CreateAudioOK
    \/ ReadFromFail \/ ReadFromOK
    \/ PutObjectFail \/ PutObjectOK
    \/ RemoveAudioFail \/ RemoveAudioOK
    \/ SynthesizeSpeechAndUploadErr \/ SynthesizeSpeechAndUploadOK
    \/ TranscribeFail \/ TranscribeOK
    \/ FlushOK \/ FlushFail
    \/ RemoveOutputFail \/ RemoveOutputOK

Spec == Init /\ [][Next]_vars

----------------------------------------------------------------------------
(* Vocabulary of the properties *)

\* the calls to the four external services
RemoteOps == {"translate", "synthesize", "put", "submit"}

\* a line that is empty or holds white space only
WhitespaceOnly(txt) == \A j \in DOMAIN txt : IsSpace(txt[j])

\* the positions of the records: the lines that are not blank
Records == {j \in DOMAIN textLines : ~WhitespaceOnly(textLines[j])}

\* the number of records up to line j
Rank(j) == Cardinality({m \in Records : m <= j})

\* the operations of one kind, in the order they were performed
Calls(op) == SelectSeq(log, LAMBDA e : e.op = op)

\* the calls to the external services, in the order they were made
RemoteCalls == SelectSeq(log, LAMBDA e : e.op \in RemoteOps)

\* the steps of the records' pipeline: everything done for a line
Steps == SelectSeq(log, LAMBDA e : e.rec > 0)

\* the texts the successful translations returned, in order
Translations ==
    LET T == SelectSeq(log, LAMBDA e : e.op = "translate" /\ e.ok)
    IN  [m \in 1 .. Len(T) |-> T[m].res]

\* a step of some record has failed
StepFailed == \E j \in DOMAIN log : log[j].rec > 0 /\ ~log[j].ok

\* nothing has failed
AllOK == \A j \in DOMAIN log : log[j].ok

\* two clock readings of the same wall-clock second
SameSecond(t, u) == t \div TicksPerSec = u \div TicksPerSec

----------------------------------------------------------------------------
(* C1: after synthesizeSpeechAndUpload returns, the staging file it made  *)
(* is not on disk, whether the put succeeded or failed.                   *)
(* The code leaves the file when ReadFrom, PutObject or Remove fails.     *)
C1_StagingFileGoneOnReturn ==
    (/\ pc = "synthReturned"
     /\ \E j \in DOMAIN log : log[j].op = "put" /\ log[j].rec = idx)
        => audioFileName \notin disk

(* C2: when a step of a record fails, no translate, synthesize, put or    *)
(* submit call is made afterwards, for that record or a later one.        *)
C2_FailureHaltsRun ==
    \A j \in DOMAIN log :
        (log[j].rec > 0 /\ ~log[j].ok)
            => \A k \in DOMAIN log : k > j => log[k].op \notin RemoteOps

\* a run has ended after a failed step with a record still to come
C2_Witness ==
    /\ pc = "done"
    /\ \E j \in DOMAIN log :
        /\ log[j].rec > 0 /\ ~log[j].ok
        /\ \E r \in Records : r > log[j].rec

(* C3: when the translation of the k-th record fails, the sink holds      *)
(* exactly the k-1 translations of the records before it, and no          *)
(* synthesize, put or submit call is made for that record or a later one. *)
C3_TranslateFailure ==
    \A j \in DOMAIN log :
        (log[j].op = "translate" /\ ~log[j].ok) =>
            /\ pc = "cleanup" =>
                /\ SinkEntries(SinkContent) = Translations
                /\ Len(SinkEntries(SinkContent)) = Rank(log[j].rec) - 1
            /\ \A k \in DOMAIN log :
                log[k].op \in {"synthesize", "put", "submit"} => log[k].rec < log[j].rec

\* the translation of the 2nd of 3 records has failed, the sink holds one entry
C3_Witness ==
    /\ pc = "cleanup"
    /\ Cardinality(Records) = 3
    /\ \E j \in DOMAIN log :
        log[j].op = "translate" /\ ~log[j].ok /\ Rank(log[j].rec) = 2
    /\ Len(SinkEntries(SinkContent)) = 1

\* every record has been translated once, in the order of the input
TranslatedInOrder ==
    LET T == Calls("translate")
    IN  /\ Len(T) = Cardinality(Records)
        /\ \A m \in DOMAIN T :
            /\ T[m].rec \in Records
            /\ Rank(T[m].rec) = m
            /\ T[m].arg = textLines[T[m].rec]

(* C4: when all records were processed without failure, the output file   *)
(* holds one translation per non-blank line, in input order; until the    *)
(* sink is deleted at the end, entries are only appended to it.           *)
C4_SinkComplete ==
    [][ /\ (pc' = "cleanup" /\ AllOK') =>
            /\ outputFileName \in disk'
            /\ SinkEntries(fileData') = Translations'
            /\ Len(SinkEntries(fileData')) = Cardinality(Records')
            /\ TranslatedInOrder'
        /\ pc' # "done" =>
            IsPrefix(SinkEntries(SinkContent), SinkEntries(SinkContent'))
      ]_vars

\* all of two or more records were processed and the file holds them
C4_Witness ==
    /\ pc = "cleanup"
    /\ AllOK
    /\ Cardinality(Records) >= 2
    /\ Len(SinkEntries(fileData)) = Cardinality(Records)

(* C5: for a blank or whitespace-only line no translate, synthesize, put  *)
(* or submit call is made and nothing is added to the sink; the loop goes *)
(* on with the next line.                                                 *)
C5_BlankSkipped ==
    [][ /\ (AtLine /\ WhitespaceOnly(textLines[idx])) =>
            /\ log' = log
            /\ SinkContent' = SinkContent
            /\ idx' = idx + 1
            /\ pc' = "loop"
        /\ \A j \in DOMAIN log' :
            log'[j].rec > 0 => ~WhitespaceOnly(textLines'[log'[j].rec])
      ]_vars

\* a line of white space was passed over between two processed records
C5_Witness ==
    /\ \E j \in DOMAIN textLines :
        /\ textLines[j] # <<>>
        /\ WhitespaceOnly(textLines[j])
        /\ j < idx
        /\ \E r \in Records : r < j
    /\ \E k \in DOMAIN log : log[k].op = "submit" /\ log[k].ok /\ log[k].rec = idx - 1
    /\ Len(Calls("translate")) = 2

(* C6: within a run all generated audio names are distinct, and all       *)
(* generated job names are distinct, whatever the clock reads.            *)
(* The code makes the names from the clock in whole seconds.              *)
C6_NamesUnique ==
    \A j \in DOMAIN log :
        log[j].op \in {"createAudio", "submit"} =>
            \A k \in DOMAIN log :
                (k # j /\ log[k].op = log[j].op) => log[j].name # log[k].name

(* C7: a generated name depends on the clock's whole second only: audio   *)
(* names made within one second are the same, and so are the object keys  *)
(* and the job names.                                                     *)
C7_SameSecondSameName ==
    /\ \A j \in DOMAIN log :
        log[j].op \in {"createAudio", "submit"} =>
            \A k \in DOMAIN log :
                (log[k].op = log[j].op /\ SameSecond(log[j].at, log[k].at))
                    => log[j].name = log[k].name
    /\ \A j \in DOMAIN log :
        log[j].op = "put" =>
            \E c \in DOMAIN log :
                /\ c < j
                /\ log[c].op = "createAudio"
                /\ log[c].rec = log[j].rec
                /\ log[c].name = log[j].name

\* two records were uploaded under one key and submitted under one job
\* name, at different instants of a second
C7_Witness ==
    /\ \E j, k \in DOMAIN log :
        /\ log[j].op = "createAudio" /\ log[k].op = "createAudio"
        /\ log[j].at # log[k].at
        /\ SameSecond(log[j].at, log[k].at)
    /\ \E j, k \in DOMAIN log :
        /\ log[j].op = "put" /\ log[k].op = "put"
        /\ log[j].rec # log[k].rec
        /\ log[j].name = log[k].name
    /\ \E j, k \in DOMAIN log :
        /\ log[j].op = "submit" /\ log[k].op = "submit"
        /\ log[j].at # log[k].at
        /\ log[j].name = log[k].name

\* the calls follow each other as translate, synthesize, put, submit, each
\* after the success of the one before for the same record
StepsInOrder ==
    LET S == RemoteCalls
    IN  \A j \in DOMAIN S :
            IF S[j].op = "translate"
            THEN j > 1 => (S[j-1].op = "submit" /\ S[j-1].ok /\ S[j-1].rec < S[j].rec)
            ELSE /\ j > 1
                 /\ S[j-1].ok
                 /\ S[j-1].rec = S[j].rec
                 /\ S[j-1].op = CASE S[j].op = "synthesize" -> "translate"
                                  [] S[j].op = "put" -> "synthesize"
                                  [] S[j].op = "submit" -> "put"

(* C8: the steps of a record occur in the order translate, synthesize,    *)
(* put, submit, each only after the one before succeeded; once a step has *)
(* failed no further step occurs.                                         *)
C8_StepOrder ==
    [][ StepsInOrder' /\ (StepFailed => Steps' = Steps) ]_vars

\* the submission of a second record has failed after its put
C8_Witness ==
    /\ Len(Calls("submit")) = 2
    /\ ~Last(log).ok
    /\ Last(log).op = "submit"

(* C9: when every operation of a run succeeds, translate, synthesize, put *)
(* and submit are each called exactly once per non-blank line, and at the *)
(* end none of the files the run created is left on disk.                 *)
C9_CleanRun ==
    (pc = "done" /\ AllOK) =>
        /\ \A op \in RemoteOps :
            /\ Len(Calls(op)) = Cardinality(Records)
            /\ \A r \in Records :
                Cardinality({j \in DOMAIN log : log[j].op = op /\ log[j].rec = r}) = 1
        /\ outputFileName \in created
        /\ created \cap disk = {}

\* a run over two records and a blank line has ended without a failure,
\* having made its sink file and two staging files
C9_Witness ==
    /\ pc = "done"
    /\ AllOK
    /\ Cardinality(Records) = 2
    /\ Len(textLines) = 3
    /\ Cardinality(created) = 3
    /\ disk = {}

(* C10: every submission names the media s3://<bucket>/<key> of the key   *)
(* under which the same record's audio was put into <bucket>, with that   *)
(* bucket as its output bucket; the object is in the bucket.              *)
C10_SubmitRefersToUpload ==
    \A j \in DOMAIN log :
        log[j].op = "submit" =>
            \E k \in DOMAIN log :
                /\ k < j
                /\ log[k].op = "put" /\ log[k].ok
                /\ log[k].rec = log[j].rec
                /\ log[j].arg = <<"s3://", log[k].bucket, "/">> \o log[k].name
                /\ log[j].bucket = log[k].bucket
                /\ log[k].bucket = bucketName
                /\ \E o \in objects : o.key = log[k].name

\* two records were submitted, the second after the clock had moved on
C10_Witness ==
    /\ Len(Calls("submit")) = 2
    /\ \E j, k \in DOMAIN log :
        /\ log[j].op = "put" /\ log[k].op = "submit"
        /\ log[j].rec = log[k].rec
        /\ log[k].name # <<"transcription-job-">> \o SubSeq(log[j].name, 2, 15)

(* C11: when the input cannot be opened or a read error occurs while it  *)
(* is read, no translate, synthesize, put or submit call is made for any  *)
(* line, also not for the lines read before the error, and no output file *)
(* is created.                                                            *)
C11_InputFailureAborts ==
    (\E j \in DOMAIN log : log[j].op = "getInputText" /\ ~log[j].ok) =>
        /\ \A k \in DOMAIN log : log[k].op \notin RemoteOps \cup {"createOutput"}
        /\ textLines = <<>>
        /\ outputFileName \notin created
        /\ disk = {}
        /\ pc = "done"

\* a read error came after a line of text had been read
C11_Witness ==
    /\ pc = "done"
    /\ \E j \in DOMAIN log :
        /\ log[j].op = "getInputText" /\ ~log[j].ok
        /\ \E m \in DOMAIN log[j].arg : ~WhitespaceOnly(log[j].arg[m])

(* C12: when the removal of the staging file fails after a successful    *)
(* put, the failure is printed and the object put under the generated key *)
(* stays in the bucket until the run ends.                                *)
C12_UploadKeptOnRemoveFailure ==
    \A j \in DOMAIN log :
        (log[j].op = "removeAudio" /\ ~log[j].ok) =>
            /\ \E k \in DOMAIN log :
                /\ k < j
                /\ log[k].op = "put" /\ log[k].ok
                /\ log[k].rec = log[j].rec
                /\ log[k].name = log[j].name
                /\ [key |-> log[k].name, body |-> log[k].arg] \in objects
            /\ \E m \in DOMAIN stdout :
                stdout[m] = <<"Error deleting local audio file:", <<"err">> >>

\* the run has ended after the removal of the second record's staging
\* file failed
C12_Witness ==
    /\ pc = "done"
    /\ \E j \in DOMAIN log :
        log[j].op = "removeAudio" /\ ~log[j].ok /\ Rank(log[j].rec) = 2
    /\ objects # {}

----------------------------------------------------------------------------
(* The naming of audio files and jobs on its own: the two names are made  *)
(* from readings of a clock that starts at one of some chosen instants.   *)

\* wall-clock seconds the clock may start at: 2024-01-02T03:04:05,
\* 2023-12-31T23:59:59, 1970-01-01T00:00:00, 2000-02-28T23:59:59,
\* 2024-02-29T00:00:00, 2025-02-28T23:59:59, 2001-09-09T01:46:40,
\* 2033-05-18T03:33:20
Instants == {1704164645, 1704067199, 0, 951782399, 1709164800, 1740787199,
             1000000000, 2000000000}

NamerInit ==
    /\ pc = "namer"
    /\ startSec \in Instants
    /\ input = <<>>
    /\ textLines = <<>>
    /\ idx = 1
    /\ translatedText = <<>>
    /\ audioFileName = NoName
    /\ retName = NoName
    /\ retErr = FALSE
    /\ now = 0
    /\ disk = {}
    /\ created = {}
    /\ fileData = <<>>
    /\ buf = <<>>
    /\ objects = {}
    /\ log = <<>>
    /\ stdout = <<>>
    /\ written = <<>>
    /\ writerErr = FALSE

\* line 134: the audio name is made from a reading of the clock
NamerAudioName ==
    /\ pc = "namer"
    /\ \A j \in DOMAIN log : log[j].op # "audioName"
    /\ \E t \in ClockReadings :
        /\ now' = t
        /\ audioFileName' = AudioName(t)
        /\ log' = Append(log, Op("audioName", 0, TRUE, AudioName(t), t, <<>>, <<>>, ""))
    /\ UNCHANGED <<pc, input, textLines, idx, translatedText, retName, retErr,
                   startSec, disk, created, fileData, buf, objects, stdout,
                   written, writerErr>>

\* line 176: the job name is made from a reading of the clock
NamerJobName ==
    /\ pc = "namer"
    /\ \A j \in DOMAIN log : log[j].op # "jobName"
    /\ \E t \in ClockReadings :
        /\ now' = t
        /\ log' = Append(log, Op("jobName", 0, TRUE, JobName(t), t, <<>>, <<>>, ""))
    /\ UNCHANGED <<pc, input, textLines, idx, translatedText, audioFileName, retName,
                   retErr, startSec, disk, created, fileData, buf, objects, stdout,
                   written, writerErr>>

NamerNext == NamerAudioName \/ NamerJobName

NamerSpec == NamerInit /\ [][NamerNext]_vars

(* The calendar: the date and time of day of a second counted from        *)
(* 1970-01-01T00:00:00 *)

IsLeapYear(y) == (y % 4 = 0 /\ y % 100 # 0) \/ y % 400 = 0

DaysInYear(y) == IF IsLeapYear(y) THEN 366 ELSE 365

DaysInMonth(y, m) ==
    IF m = 2 THEN (IF IsLeapYear(y) THEN 29 ELSE 28)
    ELSE IF m \in {4, 6, 9, 11} THEN 30 ELSE 31

\* <<year, day of the year counted from 0>> of a day counted from 1 January of y
RECURSIVE YearFrom(_, _)
YearFrom(y, days) ==
    IF days < DaysInYear(y) THEN <<y, days>> ELSE YearFrom(y + 1, days - DaysInYear(y))

\* <<month, day of the month>> of a day of year y counted from the 1st of m
RECURSIVE MonthFrom(_, _, _)
MonthFrom(y, m, days) ==
    IF days < DaysInMonth(y, m) THEN <<m, days + 1>>
    ELSE MonthFrom(y, m + 1, days - DaysInMonth(y, m))

TwoDigits(n) == <<DigitChar(n \div 10), DigitChar(n % 10)>>

\* YYYYMMDDHHMMSS of a second
Stamp(sec) ==
    LET yd == YearFrom(1970, sec \div 86400)
        md == MonthFrom(yd[1], 1, yd[2])
        h  == (sec % 86400) \div 3600
        mi == (sec % 3600) \div 60
    IN  TwoDigits(yd[1] \div 100) \o TwoDigits(yd[1] % 100) \o TwoDigits(md[1])
        \o TwoDigits(md[2]) \o TwoDigits(h) \o TwoDigits(mi) \o TwoDigits(sec % 60)

\* the second of a clock reading, counted in ticks from the start
WallSecond(t) == startSec + t \div TicksPerSec

(* C13: the audio name made at instant t is "audioFile-" YYYYMMDDHHMMSS(t) *)
(* "-output.mp3" and the job name is "transcription-job-"                 *)
(* YYYYMMDDHHMMSS(t); at 2024-01-02T03:04:05 they are                     *)
(* audioFile-20240102030405-output.mp3, transcription-job-20240102030405. *)
C13_NameFormat ==
    \A j \in DOMAIN log :
        /\ log[j].op \in {"audioName", "createAudio"} =>
            /\ log[j].name = <<"audioFile-">> \o Stamp(WallSecond(log[j].at))
                             \o <<"-output.mp3">>
            /\ WallSecond(log[j].at) = 1704164645 =>
                log[j].name = <<"audioFile-", "2", "0", "2", "4", "0", "1", "0", "2",
                                "0", "3", "0", "4", "0", "5", "-output.mp3">>
        /\ log[j].op \in {"jobName", "submit"} =>
            /\ log[j].name = <<"transcription-job-">> \o Stamp(WallSecond(log[j].at))
            /\ WallSecond(log[j].at) = 1704164645 =>
                log[j].name = <<"transcription-job-", "2", "0", "2", "4", "0", "1", "0",
                                "2", "0", "3", "0", "4", "0", "5">>

\* both names have been made at 2024-01-02T03:04:05
C13_Witness ==
    /\ \E j \in DOMAIN log :
        log[j].op = "audioName" /\ WallSecond(log[j].at) = 1704164645
    /\ \E j \in DOMAIN log :
        log[j].op = "jobName" /\ WallSecond(log[j].at) = 1704164645

----------------------------------------------------------------------------
\* the bytes of some strings one after the other
RECURSIVE Concat(_)
Concat(ss) == IF ss = <<>> THEN <<>> ELSE Head(ss) \o Concat(Tail(ss))

(* C14: when all records were processed without failure, what was         *)
(* written to the sink is flushed to the output file first, and only then *)
(* is the file closed and deleted; no flush comes after the deletion.     *)
C14_FlushBeforeDelete ==
    /\ \A j \in DOMAIN log :
        log[j].op = "removeOutput" =>
            /\ \A k \in DOMAIN log : k > j => log[k].op # "flush"
            /\ ~StepFailed => (j > 1 /\ log[j-1].op = "flush")
    /\ (log # <<>> /\ Last(log).op = "flush" /\ Last(log).ok) =>
            /\ outputFileName \in disk
            /\ fileData = Concat(written)
            /\ buf = <<>>

\* a run over two records has ended with the flush and then the deletion
C14_Witness ==
    /\ pc = "done"
    /\ AllOK
    /\ Len(written) = 2
    /\ Len(log) > 2
    /\ log[Len(log) - 1].op = "flush"
    /\ Last(log).op = "removeOutput"

\* the attempts to delete the output file
OutputRemovals == {j \in DOMAIN log : log[j].op = "removeOutput"}

(* C15: once the output file has been created, its deletion is attempted  *)
(* exactly once when the run ends, after all records and after a failed   *)
(* translation, synthesis, upload or submission alike; when the deletion  *)
(* fails this is printed and nothing else is done.                        *)
C15_OutputDeletedOnce ==
    /\ Cardinality(OutputRemovals) <= 1
    /\ pc # "done" => OutputRemovals = {}
    /\ (pc = "done" /\ outputFileName \in created) =>
        /\ OutputRemovals = {Len(log)}
        /\ Last(log).ok => outputFileName \notin disk
        /\ ~Last(log).ok =>
            /\ outputFileName \in disk
            /\ Last(stdout) = <<"Error deleting local text file:", <<"err">> >>
    /\ outputFileName \notin created => OutputRemovals = {}

\* a run has ended after a failed submission and a failed deletion
C15_Witness ==
    /\ pc = "done"
    /\ \E j \in DOMAIN log : log[j].op = "submit" /\ ~log[j].ok
    /\ Last(log).op = "removeOutput"
    /\ ~Last(log).ok

----------------------------------------------------------------------------
(* Every call returns and main is never held up: a step that can be taken *)
(* is taken.                                                              *)
FairSpec == Spec /\ WF_vars(Next)

(* C16: every run ends: with a finite input and calls that all return,    *)
(* the run reaches the end of the records or its first failure, and makes *)
(* no call after it has ended.                                            *)
C16_RunTerminates ==
    /\ <>(pc = "done")
    /\ [][pc = "done" => log' = log]_vars

\* a run over three records has ended without a failure
C16_Witness ==
    /\ pc = "done"
    /\ AllOK
    /\ Cardinality(Records) = 3

----------------------------------------------------------------------------
\* the staging files on disk: every local file but the output file
StagingFiles == disk \ {outputFileName}

\* the removal of the staging file is the step that follows a successful put
RemovedRightAfterPut ==
    \A j \in DOMAIN log :
        (log[j].op = "put" /\ log[j].ok /\ j < Len(log)) =>
            /\ log[j+1].op = "removeAudio"
            /\ log[j+1].rec = log[j].rec
            /\ log[j+1].name = log[j].name

(* C17 as claimed: the staging file of a record is created immediately    *)
(* before the synthesize call, so that it exists while the synthesis is   *)
(* made, and is deleted immediately after the successful put.             *)
(* The code calls SynthesizeSpeech first and creates the file afterwards. *)
C17_StagingBeforeSynthesis ==
    /\ \A j \in DOMAIN log :
        log[j].op = "synthesize" =>
            /\ j > 1
            /\ log[j-1].op = "createAudio"
            /\ log[j-1].rec = log[j].rec
    /\ pc = "synthesize" => StagingFiles # {}
    /\ RemovedRightAfterPut

(* C17 amended: the staging file of a record is created immediately after *)
(* the synthesize call has succeeded, so that no staging file exists      *)
(* while the synthesis is made; it exists from then until it is deleted,  *)
(* which is the step immediately after the successful put.                *)
C17_StagingAfterSynthesis ==
    /\ \A j \in DOMAIN log :
        log[j].op = "createAudio" =>
            /\ j > 1
            /\ log[j-1].op = "synthesize"
            /\ log[j-1].ok
            /\ log[j-1].rec = log[j].rec
    /\ pc = "synthesize" => StagingFiles = {}
    /\ pc \in {"readFrom", "putObject", "removeAudio"} => StagingFiles = {audioFileName}
    /\ RemovedRightAfterPut

\* the staging file of a second record was removed after its put
C17_Witness ==
    /\ pc = "synthReturned"
    /\ ~retErr
    /\ Rank(idx) = 2
    /\ Len(log) > 2
    /\ log[Len(log) - 1].op = "put"
    /\ Last(log).op = "removeAudio"
    /\ StagingFiles = {}

----------------------------------------------------------------------------
\* the number of calls of one kind made so far
Count(op) == Cardinality({j \in DOMAIN log : log[j].op = op})

(* C18: at any time the numbers of calls made so far satisfy              *)
(* translate >= synthesize >= put >= submit, neighbours differing by at   *)
(* most 1, and as many entries were written to the sink's writer as       *)
(* translations succeeded.                                                *)
C18_CallCounts ==
    LET t == Count("translate")
        y == Count("synthesize")
        p == Count("put")
        u == Count("submit")
    IN  /\ t >= y /\ t - y <= 1
        /\ y >= p /\ y - p <= 1
        /\ p >= u /\ p - u <= 1
        /\ Len(written) = Cardinality({j \in DOMAIN log : log[j].op = "translate" /\ log[j].ok})
        /\ Len(written) = Len(Translations)
        /\ \A m \in DOMAIN written : written[m] = Translations[m] \o <<"\n">>

\* the third record is synthesized and not yet uploaded
C18_Witness ==
    /\ Count("translate") = 3
    /\ Count("synthesize") = 3
    /\ Count("put") = 2
    /\ Count("submit") = 2
    /\ Len(written) = 3

----------------------------------------------------------------------------
(* C19: a submission is attempted for a record exactly when its put and   *)
(* the removal of its staging file both succeeded; when the removal       *)
(* fails the run ends with the audio in the bucket and no submission for  *)
(* it.                                                                    *)
C19_SubmitIffPutAndRemoved ==
    /\ \A j \in DOMAIN log :
        log[j].op = "submit" =>
            /\ j > 2
            /\ log[j-1].op = "removeAudio" /\ log[j-1].ok /\ log[j-1].rec = log[j].rec
            /\ log[j-2].op = "put" /\ log[j-2].ok /\ log[j-2].rec = log[j].rec
    /\ \A j \in DOMAIN log :
        (log[j].op = "removeAudio" /\ log[j].ok) =>
            IF j < Len(log)
            THEN log[j+1].op = "submit" /\ log[j+1].rec = log[j].rec
            ELSE pc \in {"synthReturned", "transcribe"}
    /\ \A j \in DOMAIN log :
        (log[j].op = "removeAudio" /\ ~log[j].ok) =>
            /\ \E o \in objects : o.key = log[j].name
            /\ \A k \in DOMAIN log :
                /\ log[k].op = "submit" => log[k].rec < log[j].rec
                /\ k > j => log[k].op = "removeOutput"
            /\ pc \in {"synthReturned", "cleanup", "done"}

\* a run has ended after the removal of a staging file failed: the audio
\* is in the bucket and was not submitted
C19_Witness ==
    /\ pc = "done"
    /\ \E j \in DOMAIN log :
        /\ log[j].op = "removeAudio" /\ ~log[j].ok
        /\ \E o \in objects : o.key = log[j].name
        /\ \A k \in DOMAIN log : log[k].op = "submit" => log[k].rec # log[j].rec
    /\ Count("submit") = 1

====
